---------------------------- MODULE Spec2Model ----------------------------
(***************************************************************************)
(* A model of toml_lib/toml.py: the TomlConfig attribute tree.             *)
(*                                                                         *)
(* Python objects live in a heap: heap[n] is the instance __dict__ of the  *)
(* n-th TomlConfig object, a function from attribute names to values.      *)
(* Values are tagged records: ints, strings, None, lists, raw dicts,       *)
(* references to TomlConfig objects, and bound methods (what getattr       *)
(* yields for a name that only the class defines).  A dotted key is a      *)
(* sequence of tokens, "." being the separator that str.split looks for.   *)
(***************************************************************************)
EXTENDS Integers, Sequences, FiniteSets, TLC

(* ------------------------------ bounds -------------------------------- *)

\* TomlConfig objects allocated in one run.
MaxNodes == 4

\* Calls made in one run (the construction of the root included).
MaxOps == 3

(* ------------------------------ values -------------------------------- *)

IntV(i) == [t |-> "int", i |-> i]

StrV(s) == [t |-> "str", s |-> s]

NoneV == [t |-> "none"]

ListV(l) == [t |-> "list", l |-> l]

\* a plain Python dict: d is a function from names to values
DictV(d) == [t |-> "dict", d |-> d]

\* a TomlConfig instance, by identity
NodeV(n) == [t |-> "node", id |-> n]

\* a bound method of a TomlConfig instance or of a builtin
MethodV(m) == [t |-> "method", m |-> m]

\* the __dict__ object of TomlConfig instance n, by identity
DictRef(n) == [t |-> "dictref", id |-> n]

EmptyDict == [k \in {} |-> NoneV]

NoExc == [e |-> "none", msg |-> ""]

Exc(e, msg) == [e |-> e, msg |-> msg]

(* ----------------------- Python's attribute model --------------------- *)

\* The names class TomlConfig defines: every instance has them as attributes.
ClassAttrs ==
    {"load", "add_item", "remove_item", "update_item", "to_dict", "save_to_file",
     "add_items", "save", "get", "to_json", "from_json"}

\* The public names type dict defines.
DictAttrs ==
    {"get", "items", "keys", "values", "update", "pop", "popitem", "copy",
     "clear", "setdefault", "fromkeys"}

\* hasattr(obj, k): the instance __dict__ first, then the type.  ints, strings,
\* None, lists and bound methods have none of the names this model draws.
hasattr(h, obj, k) ==
    CASE obj.t = "node" -> k \in DOMAIN h[obj.id] \/ k \in ClassAttrs
      [] obj.t = "dict" -> k \in DictAttrs
      [] OTHER -> FALSE

\* getattr(obj, k) where hasattr(obj, k): an instance attribute shadows a method.
getattr(h, obj, k) ==
    IF obj.t = "node" /\ k \in DOMAIN h[obj.id] THEN h[obj.id][k] ELSE MethodV(k)

\* setattr(n, k, v) on a TomlConfig instance (any other receiver raises).
setattr(h, n, k, v) ==
    [h EXCEPT ![n] = [x \in DOMAIN h[n] \cup {k} |-> IF x = k THEN v ELSE h[n][x]]]

\* delattr(n, k) on a TomlConfig instance that has k in its __dict__.
delattr(h, n, k) ==
    [h EXCEPT ![n] = [x \in DOMAIN h[n] \ {k} |-> h[n][x]]]

\* obj.m(...) reaches the class's method m unless the instance __dict__ binds m
\* (to a value, none of which is callable: TypeError).
callable(h, n, m) == m \notin DOMAIN h[n]

(* ------------------------------ key strings --------------------------- *)

RECURSIVE str(_)
\* the Python string a token sequence spells
str(key) == IF key = <<>> THEN "" ELSE Head(key) \o str(Tail(key))

RECURSIVE split(_)
\* key.split('.'): the maximal dot-free pieces, empty ones included
split(key) ==
    IF key = <<>> THEN <<"">>
    ELSE LET rest == split(Tail(key))
         IN IF Head(key) = "." THEN <<"">> \o rest
            ELSE <<Head(key) \o Head(rest)>> \o Tail(rest)

(* ------------------------------ __init__ ------------------------------ *)

RECURSIVE init(_, _, _)
\* The loop of __init__ over data.items() on the allocated object self: a dict
\* value becomes a new TomlConfig (allocated, then initialised), anything else is
\* bound as it is.
init(h, self, data) ==
    IF DOMAIN data = {} THEN h
    ELSE LET key == CHOOSE k \in DOMAIN data : TRUE
             value == data[key]
             rest == [k \in DOMAIN data \ {key} |-> data[k]]
         IN IF value.t = "dict"
            THEN LET child == Len(h) + 1
                     h1 == init(Append(h, EmptyDict), child, value.d)
                 IN init(setattr(h1, self, key, NodeV(child)), self, rest)
            ELSE init(setattr(h, self, key, value), self, rest)

\* TomlConfig(data, filename): filename is "" where the code passes None.
TomlConfig(h, data, filename) ==
    LET self == Len(h) + 1
        h1 == init(Append(h, EmptyDict), self, data)
    IN [h |-> IF filename # "" THEN setattr(h1, self, "__file__", StrV(filename)) ELSE h1,
        id |-> self]

(* ------------------------------ the codecs ---------------------------- *)

\* The text of a file is the document it spells, tagged with its format; the
\* empty text is what open(filename, "a") leaves in a file it creates.
EmptyText == [fmt |-> "empty", doc |-> EmptyDict]

\* tomlkit.dumps(data)
dumps(data) == [fmt |-> "toml", doc |-> data]

\* tomlkit.loads(text): the document, or a parse error for text that is not TOML
loads(text) ==
    CASE text.fmt = "toml" -> [exc |-> NoExc, data |-> text.doc]
      [] text.fmt = "empty" -> [exc |-> NoExc, data |-> EmptyDict]
      [] OTHER -> [exc |-> Exc("ParseError", ""), data |-> EmptyDict]

\* json.dumps(data, indent=4)
json_dumps(data) == [fmt |-> "json", doc |-> data]

\* json.load(f): the document, or a decode error for text that is not JSON
json_load(text) ==
    IF text.fmt = "json" THEN [exc |-> NoExc, data |-> text.doc]
    ELSE [exc |-> Exc("ParseError", ""), data |-> EmptyDict]

\* a path with no file behind it
Absent == [fmt |-> "absent", doc |-> EmptyDict]

(* ------------------------------ the methods --------------------------- *)

RECURSIVE add_item_loop(_, _, _, _, _)
\* The loop of add_item from position idx (1-based) with current_level as it is.
\* TomlConfig({}) is built before setattr is tried; a setattr on anything but a
\* TomlConfig instance raises AttributeError and leaves the heap as it was.
add_item_loop(h, current_level, keys, idx, value) ==
    IF idx > Len(keys) THEN [h |-> h, exc |-> NoExc]
    ELSE LET k == keys[idx]
             atLast == idx = Len(keys)
             has == hasattr(h, current_level, k)
             writes == ~has \/ atLast
             h0 == IF atLast THEN h ELSE Append(h, EmptyDict)
             bound == IF atLast THEN value ELSE NodeV(Len(h) + 1)
         IN IF writes /\ current_level.t # "node"
            THEN [h |-> h, exc |-> Exc("AttributeError", k)]
            ELSE LET h1 == IF writes THEN setattr(h0, current_level.id, k, bound) ELSE h
                 IN add_item_loop(h1, getattr(h1, current_level, k), keys, idx + 1, value)

\* add_item(self, key, value)
add_item(h, self, key, value) == add_item_loop(h, NodeV(self), split(key), 1, value)

\* self.add_item(key, value), as a caller or add_items writes it
call_add_item(h, self, key, value) ==
    IF callable(h, self, "add_item") THEN add_item(h, self, key, value)
    ELSE [h |-> h, exc |-> Exc("TypeError", "add_item")]

RECURSIVE remove_item_loop(_, _, _, _, _)
\* The loop of remove_item from position idx (1-based).  delattr on a name that
\* only the type defines, or on a builtin, raises AttributeError.
remove_item_loop(h, current_level, key, keys, idx) ==
    LET k == keys[idx]
    IN IF ~hasattr(h, current_level, k)
       THEN [h |-> h, exc |-> Exc("KeyError", str(key))]
       ELSE IF idx = Len(keys)
            THEN IF current_level.t = "node" /\ k \in DOMAIN h[current_level.id]
                 THEN [h |-> delattr(h, current_level.id, k), exc |-> NoExc]
                 ELSE [h |-> h, exc |-> Exc("AttributeError", k)]
            ELSE remove_item_loop(h, getattr(h, current_level, k), key, keys, idx + 1)

\* remove_item(self, key)
remove_item(h, self, key) == remove_item_loop(h, NodeV(self), key, split(key), 1)

\* update_item(self, key, value): the key as one name
update_item(h, self, key, value) ==
    IF hasattr(h, NodeV(self), str(key))
    THEN [h |-> setattr(h, self, str(key), value), exc |-> NoExc]
    ELSE [h |-> h, exc |-> Exc("KeyError", str(key))]

RECURSIVE to_dict(_, _)
\* to_dict(self): a plain mapping; a TomlConfig value exports itself
to_dict(h, self) ==
    LET d == h[self]
        kept == {key \in DOMAIN d : ~(key = "__file__" \/ d[key] = NoneV)}
    IN [key \in kept |->
          IF d[key].t = "node" THEN DictV(to_dict(h, d[key].id)) ELSE d[key]]

\* get(self, key): the __dict__ object of a TomlConfig value, any other value as is
get(h, self, key) ==
    IF hasattr(h, NodeV(self), str(key))
    THEN LET attr == getattr(h, NodeV(self), str(key))
         IN [exc |-> NoExc, ret |-> IF attr.t = "node" THEN DictRef(attr.id) ELSE attr]
    ELSE [exc |-> Exc("KeyError", str(key)), ret |-> NoneV]

\* self.get(key), as a caller writes it
call_get(h, self, key) ==
    IF callable(h, self, "get") THEN get(h, self, key)
    ELSE [exc |-> Exc("TypeError", "get"), ret |-> NoneV]

\* to_json(self)
to_json(h, self) == json_dumps(to_dict(h, self))

\* save_to_file(self, filename), filename a value: open(filename, "w") takes a
\* path (a string), or an int as a file descriptor (no file of the file system
\* is written), and raises TypeError for anything else.
save_to_file(h, fs, self, filename) ==
    IF ~callable(h, self, "to_dict") THEN [fs |-> fs, exc |-> Exc("TypeError", "to_dict")]
    ELSE CASE filename.t = "str" ->
                [fs |-> [p \in DOMAIN fs \cup {filename.s} |->
                           IF p = filename.s THEN dumps(to_dict(h, self)) ELSE fs[p]],
                 exc |-> NoExc]
           [] filename.t = "int" -> [fs |-> fs, exc |-> NoExc]
           [] OTHER -> [fs |-> fs, exc |-> Exc("TypeError", "open")]

\* save(self): self.__file__ is an attribute lookup, AttributeError when no
\* __file__ was ever set on the instance
save(h, fs, self) ==
    IF "__file__" \notin DOMAIN h[self]
    THEN [fs |-> fs, exc |-> Exc("AttributeError", "__file__")]
    ELSE IF h[self]["__file__"] = NoneV
         THEN [fs |-> fs,
               exc |-> Exc("ValueError",
                           "Original filename not available. Use save_to_file() instead.")]
         ELSE IF ~callable(h, self, "save_to_file")
              THEN [fs |-> fs, exc |-> Exc("TypeError", "save_to_file")]
              ELSE save_to_file(h, fs, self, h[self]["__file__"])

\* load(filename): open(filename, "a") creates the file when it is absent
load(h, fs, filename) ==
    LET fs1 == [fs EXCEPT ![filename] = IF fs[filename] = Absent THEN EmptyText ELSE @]
        parsed == loads(fs1[filename])
        made == TomlConfig(h, parsed.data, filename)
    IN IF parsed.exc # NoExc
       THEN [h |-> h, fs |-> fs1, exc |-> parsed.exc, id |-> 0]
       ELSE [h |-> made.h, fs |-> fs1, exc |-> NoExc, id |-> made.id]

\* from_json(json_data): open(json_data, "r") needs the file
from_json(h, fs, json_data) ==
    IF fs[json_data] = Absent
    THEN [h |-> h, exc |-> Exc("FileNotFoundError", json_data), id |-> 0]
    ELSE LET parsed == json_load(fs[json_data])
             made == TomlConfig(h, parsed.data, "")
         IN IF parsed.exc # NoExc
            THEN [h |-> h, exc |-> parsed.exc, id |-> 0]
            ELSE [h |-> made.h, exc |-> NoExc, id |-> made.id]

RECURSIVE add_items_item(_, _, _)
\* The inner loop of add_items: for key, value in item.items(); item is the
\* sequence of its <<key, value>> pairs in iteration order.
add_items_item(h, self, item) ==
    IF item = <<>> THEN [h |-> h, exc |-> NoExc]
    ELSE LET r == call_add_item(h, self, Head(item)[1], Head(item)[2])
         IN IF r.exc # NoExc THEN r ELSE add_items_item(r.h, self, Tail(item))

RECURSIVE add_items_first_pair(_, _, _)
\* add_items taking one pair from each item, as if an item were a single pair
add_items_first_pair(h, self, items) ==
    IF items = <<>> THEN [h |-> h, exc |-> NoExc]
    ELSE LET r == add_items_item(h, self,
                                 IF Head(items) = <<>> THEN <<>> ELSE <<Head(items)[1]>>)
         IN IF r.exc # NoExc THEN r ELSE add_items_first_pair(r.h, self, Tail(items))

RECURSIVE add_items(_, _, _)
\* add_items(self, items): for item in items
add_items(h, self, items) ==
    IF items = <<>> THEN [h |-> h, exc |-> NoExc]
    ELSE LET r == add_items_item(h, self, Head(items))
         IN IF r.exc # NoExc THEN r ELSE add_items(r.h, self, Tail(items))

(* ------------------------------ inputs -------------------------------- *)

\* The paths of the file system: a TOML file, a path with no file, a JSON file.
Paths == {"p", "q", "j"}

\* The dotted keys callers pass, as token sequences.
KeyInputs ==
    {<<"a">>, <<"b">>, <<"a", ".", "b">>, <<"a", ".", "b", ".", "a">>,
     <<"get">>, <<"__file__">>}

\* The values callers pass.
ValueInputs == {IntV(1), NoneV, StrV("q"), DictV([b |-> IntV(1)])}

\* The mappings plain construction is given.
DocInputs ==
    {EmptyDict,
     [a |-> IntV(1)],
     [a |-> DictV([a |-> IntV(1), b |-> ListV(<<IntV(1)>>)])],
     [a |-> DictV([b |-> DictV(EmptyDict)]), b |-> NoneV],
     [__file__ |-> StrV("q"), a |-> IntV(1)]}

\* The documents the TOML file holds at the start.
TomlDocs == {[a |-> DictV([a |-> IntV(1), b |-> IntV(2)])], [a |-> IntV(1)]}

\* The documents the JSON file holds at the start.
JsonDocs == {[a |-> NoneV, b |-> DictV([a |-> IntV(1)])]}

\* The lists add_items is given: each item the sequence of its pairs.
ItemsInputs ==
    {<<>>,
     << <<>>, << <<<<"a", ".", "b">>, IntV(1)>> >> >>,
     << << <<<<"a", ".", "b">>, IntV(1)>>, <<<<"b">>, StrV("q")>> >>,
        << <<<<"a", ".", "b">>, NoneV>> >> >>,
     << << <<<<"b">>, IntV(1)>> >>,
        << <<<<"a", ".", "b">>, StrV("q")>>, <<<<"a">>, IntV(1)>> >>,
        << <<<<"b">>, NoneV>> >> >>,
     << << <<<<"a">>, IntV(1)>>, <<<<"a", ".", "b">>, IntV(1)>> >>,
        << <<<<"b">>, IntV(1)>> >> >>}

\* What a caller writes into a mapping that get returned.
HeldNames == {"a", "b"}

HeldValues == {IntV(1), StrV("q")}

(* ------------------------------ the state ----------------------------- *)

VARIABLES
    heap,      \* the TomlConfig objects: heap[n] is the __dict__ of object n
    root,      \* the object load, from_json or construction returned (0: none yet)
    origin,    \* how root was made: "none", "new", "load" or "from_json"
    fs,        \* the file system: the text behind each path
    held,      \* the value the last successful get returned
    heldSeen,  \* the contents of the mapping held, as its holder has seen them
    log        \* the calls made so far, each with its outcome and its pre-state

vars == <<heap, root, origin, fs, held, heldSeen, log>>

\* the log with one more call: its name, receiver, arguments and outcome, and the
\* heap and file system it started from
Logged(op, self, args, exc, ret) ==
    Append(log, [op |-> op, self |-> self, args |-> args, exc |-> exc, ret |-> ret,
                 pre |-> heap, prefs |-> fs])

\* the bound on the calls of one run
CanCall == Len(log) < MaxOps

\* the last call made
last ==
    IF log # <<>> THEN log[Len(log)]
    ELSE [op |-> "none", self |-> 0, args |-> <<>>, exc |-> NoExc, ret |-> NoneV,
          pre |-> <<>>, prefs |-> fs]

Objects == 1..Len(heap)

Init ==
    /\ heap = <<>>
    /\ root = 0
    /\ origin = "none"
    /\ \E t \in TomlDocs, j \in JsonDocs :
          fs = [p \in Paths |->
                  CASE p = "p" -> dumps(t) [] p = "j" -> json_dumps(j) [] OTHER -> Absent]
    /\ held = NoneV
    /\ heldSeen = EmptyDict
    /\ log = <<>>

\* r = TomlConfig(data)
New(data) ==
    /\ CanCall
    /\ root = 0
    /\ LET made == TomlConfig(heap, data, "")
       IN /\ Len(made.h) <= MaxNodes
          /\ heap' = made.h
          /\ root' = made.id
          /\ log' = Logged("new", made.id, <<data>>, NoExc, NodeV(made.id))
    /\ origin' = "new"
    /\ UNCHANGED <<fs, held, heldSeen>>

\* r = TomlConfig.load(filename)
Load(filename) ==
    /\ CanCall
    /\ root = 0
    /\ LET r == load(heap, fs, filename)
       IN /\ Len(r.h) <= MaxNodes
          /\ heap' = r.h
          /\ fs' = r.fs
          /\ root' = r.id
          /\ origin' = IF r.exc = NoExc THEN "load" ELSE "none"
          /\ log' = Logged("load", r.id, <<filename>>, r.exc,
                          IF r.exc = NoExc THEN NodeV(r.id) ELSE NoneV)
    /\ UNCHANGED <<held, heldSeen>>

\* r = TomlConfig.from_json(json_data)
FromJson(json_data) ==
    /\ CanCall
    /\ root = 0
    /\ LET r == from_json(heap, fs, json_data)
       IN /\ Len(r.h) <= MaxNodes
          /\ heap' = r.h
          /\ root' = r.id
          /\ origin' = IF r.exc = NoExc THEN "from_json" ELSE "none"
          /\ log' = Logged("from_json", r.id, <<json_data>>, r.exc,
                          IF r.exc = NoExc THEN NodeV(r.id) ELSE NoneV)
    /\ UNCHANGED <<fs, held, heldSeen>>

\* self.add_item(key, value)
AddItem(self, key, value) ==
    /\ CanCall
    /\ LET r == call_add_item(heap, self, key, value)
       IN /\ Len(r.h) <= MaxNodes
          /\ heap' = r.h
          /\ log' = Logged("add_item", self, <<key, value>>, r.exc, NoneV)
    /\ UNCHANGED <<root, origin, fs, held, heldSeen>>

\* self.add_items(items)
AddItems(self, items) ==
    /\ CanCall
    /\ LET r == IF callable(heap, self, "add_items") THEN add_items(heap, self, items)
                ELSE [h |-> heap, exc |-> Exc("TypeError", "add_items")]
       IN /\ Len(r.h) <= MaxNodes
          /\ heap' = r.h
          /\ log' = Logged("add_items", self, <<items>>, r.exc, NoneV)
    /\ UNCHANGED <<root, origin, fs, held, heldSeen>>

\* self.update_item(key, value)
UpdateItem(self, key, value) ==
    /\ CanCall
    /\ LET r == IF callable(heap, self, "update_item") THEN update_item(heap, self, key, value)
                ELSE [h |-> heap, exc |-> Exc("TypeError", "update_item")]
       IN /\ heap' = r.h
          /\ log' = Logged("update_item", self, <<key, value>>, r.exc, NoneV)
    /\ UNCHANGED <<root, origin, fs, held, heldSeen>>

\* self.remove_item(key)
RemoveItem(self, key) ==
    /\ CanCall
    /\ LET r == IF callable(heap, self, "remove_item") THEN remove_item(heap, self, key)
                ELSE [h |-> heap, exc |-> Exc("TypeError", "remove_item")]
       IN /\ heap' = r.h
          /\ log' = Logged("remove_item", self, <<key>>, r.exc, NoneV)
    /\ UNCHANGED <<root, origin, fs, held, heldSeen>>

\* held = self.get(key)
Get(self, key) ==
    /\ CanCall
    /\ LET r == call_get(heap, self, key)
       IN /\ log' = Logged("get", self, <<key>>, r.exc, r.ret)
          /\ held' = IF r.exc = NoExc THEN r.ret ELSE held
          /\ heldSeen' = IF r.exc # NoExc THEN heldSeen
                         ELSE IF r.ret.t = "dictref" THEN heap[r.ret.id] ELSE EmptyDict
    /\ UNCHANGED <<heap, root, origin, fs>>

\* held[name] = value, on the mapping a get returned
SetHeld(name, value) ==
    /\ CanCall
    /\ held.t = "dictref"
    /\ heap' = setattr(heap, held.id, name, value)
    /\ heldSeen' = [x \in DOMAIN heldSeen \cup {name} |->
                      IF x = name THEN value ELSE heldSeen[x]]
    /\ log' = Logged("set_held", held.id, <<name, value>>, NoExc, NoneV)
    /\ UNCHANGED <<root, origin, fs, held>>

\* self.save()
Save(self) ==
    /\ CanCall
    /\ LET r == IF callable(heap, self, "save") THEN save(heap, fs, self)
                ELSE [fs |-> fs, exc |-> Exc("TypeError", "save")]
       IN /\ fs' = r.fs
          /\ log' = Logged("save", self, <<>>, r.exc, NoneV)
    /\ UNCHANGED <<heap, root, origin, held, heldSeen>>

\* self.save_to_file(filename)
SaveToFile(self, filename) ==
    /\ CanCall
    /\ LET r == IF callable(heap, self, "save_to_file")
                THEN save_to_file(heap, fs, self, StrV(filename))
                ELSE [fs |-> fs, exc |-> Exc("TypeError", "save_to_file")]
       IN /\ fs' = r.fs
          /\ log' = Logged("save_to_file", self, <<filename>>, r.exc, NoneV)
    /\ UNCHANGED <<heap, root, origin, held, heldSeen>>

Next ==
    \/ \E data \in DocInputs : New(data)
    \/ \E filename \in Paths : Load(filename)
    \/ \E json_data \in Paths : FromJson(json_data)
    \/ \E self \in Objects, key \in KeyInputs, value \in ValueInputs : AddItem(self, key, value)
    \/ \E self \in Objects, items \in ItemsInputs : AddItems(self, items)
    \/ \E self \in Objects, key \in KeyInputs, value \in ValueInputs : UpdateItem(self, key, value)
    \/ \E self \in Objects, key \in KeyInputs : RemoveItem(self, key)
    \/ \E self \in Objects, key \in KeyInputs : Get(self, key)
    \/ \E name \in HeldNames, value \in HeldValues : SetHeld(name, value)
    \/ \E self \in Objects : Save(self)
    \/ \E self \in Objects, filename \in Paths : SaveToFile(self, filename)

Spec == Init /\ [][Next]_vars

(* --------------------- batches on a constructed root ------------------ *)

\* The values the single adds between batches bind.
BatchValues == {IntV(1), StrV("q")}

\* The root built by plain construction from one of the input mappings.
InitItems ==
    /\ \E data \in DocInputs :
          LET made == TomlConfig(<<>>, data, "")
          IN heap = made.h /\ root = made.id
    /\ origin = "new"
    /\ fs = [p \in Paths |-> Absent]
    /\ held = NoneV
    /\ heldSeen = EmptyDict
    /\ log = <<>>

NextItems ==
    \/ \E key \in KeyInputs, value \in BatchValues : AddItem(root, key, value)
    \/ \E items \in ItemsInputs : AddItems(root, items)

SpecItems == InitItems /\ [][NextItems]_vars

(* ------------------------ what the claims speak of -------------------- *)

\* what an attribute access yields where Python raises AttributeError
Missing == [t |-> "missing"]

RECURSIVE follow(_, _, _)
\* obj.s1.s2...sn: attribute access along the names
follow(h, obj, names) ==
    IF names = <<>> THEN obj
    ELSE IF hasattr(h, obj, Head(names))
         THEN follow(h, getattr(h, obj, Head(names)), Tail(names))
         ELSE Missing

\* The data keys of object n: its bindings, the origin path load attached to the
\* root it returned not being one.
DataKeys(h, n) ==
    IF origin = "load" /\ n = root THEN DOMAIN h[n] \ {"__file__"} ELSE DOMAIN h[n]

RECURSIVE BoundPath(_, _, _)
\* every name of the path is a data key at its level
BoundPath(h, obj, names) ==
    \/ names = <<>>
    \/ /\ obj.t = "node"
       /\ Head(names) \in DataKeys(h, obj.id)
       /\ BoundPath(h, h[obj.id][Head(names)], Tail(names))

RECURSIVE reach(_, _)
\* the objects of the tree under object n
reach(h, n) ==
    {n} \cup UNION {reach(h, h[n][k].id) : k \in {x \in DOMAIN h[n] : h[n][x].t = "node"}}

RECURSIVE Flatten(_)
\* the pairs of a list of items, in list order and in each item's own order
Flatten(items) == IF items = <<>> THEN <<>> ELSE Head(items) \o Flatten(Tail(items))

RECURSIVE Sequentially(_, _, _)
\* a caller's self.add_item(key, value) for one pair after another, up to the
\* first call that raises
Sequentially(h, self, pairs) ==
    IF pairs = <<>> THEN [h |-> h, exc |-> NoExc]
    ELSE LET r == call_add_item(h, self, pairs[1][1], pairs[1][2])
         IN IF r.exc.e = "none" THEN Sequentially(r.h, self, SubSeq(pairs, 2, Len(pairs)))
            ELSE r

\* the calls between the one that made the root and the last are all among ops,
\* on the root
OnlyRootCalls(ops, upto) ==
    \A i \in 2..upto : log[i].op \in ops /\ log[i].self = root

NoOriginMessage == "Original filename not available. Use save_to_file() instead."

(* ------------------------------ the claims ---------------------------- *)

\* C1: after add_item(k, v) returns, the attribute chain s1..sn yields v, every
\* intermediate segment is bound to a sub-table node (the existing one reused,
\* a missing one created empty), and get(sn) on the last intermediate node
\* returns v.
C1_AddItemThenRetrieve ==
    (last.op = "add_item" /\ last.exc = NoExc) =>
        LET names == split(last.args[1])
            n == Len(names)
            value == last.args[2]
            self == NodeV(last.self)
            parent == follow(heap, self, SubSeq(names, 1, n - 1))
        IN /\ follow(heap, self, names) = value
           /\ \A i \in 1..(n - 1) :
                 LET now == follow(heap, self, SubSeq(names, 1, i))
                     was == follow(last.pre, self, SubSeq(names, 1, i))
                 IN /\ now.t = "node"
                    /\ was # Missing => now = was
                    /\ was = Missing =>
                          now.id > Len(last.pre) /\ DOMAIN heap[now.id] \subseteq {names[i + 1]}
           /\ parent.t = "node"
           /\ call_get(heap, parent.id, <<names[n]>>) = [exc |-> NoExc, ret |-> value]

\* C2: to_dict() of the node constructed from a plain mapping M equals M (stated
\* here for the mappings that bind no key to None at the top level).
C2_ConstructToDictRoundTrip ==
    (last.op = "new" /\ \A k \in DOMAIN last.args[1] : last.args[1][k] # NoneV) =>
        to_dict(heap, root) = last.args[1]

\* C3: update_item(key, value) fails with KeyError and changes nothing when key
\* is not a data key of the node, and otherwise rebinds exactly that key; the key
\* is one name, never split.
C3_UpdateNeverCreates ==
    last.op = "update_item" =>
        IF str(last.args[1]) \in DataKeys(last.pre, last.self)
        THEN /\ last.exc = NoExc
             /\ heap = setattr(last.pre, last.self, str(last.args[1]), last.args[2])
        ELSE /\ last.exc = Exc("KeyError", str(last.args[1]))
             /\ heap = last.pre

\* C4: remove_item(dotted_key) fails with KeyError carrying the whole key and
\* changes nothing when some segment is not a data key at its level; otherwise
\* it unbinds the last segment only, and a later lookup of it fails with KeyError.
C4_RemoveItem ==
    last.op = "remove_item" =>
        LET names == split(last.args[1])
            n == Len(names)
            self == NodeV(last.self)
            parent == follow(last.pre, self, SubSeq(names, 1, n - 1))
        IN IF BoundPath(last.pre, self, names)
           THEN /\ last.exc = NoExc
                /\ heap = delattr(last.pre, parent.id, names[n])
                /\ call_get(heap, parent.id, <<names[n]>>).exc.e = "KeyError"
           ELSE /\ last.exc = Exc("KeyError", str(last.args[1]))
                /\ heap = last.pre

\* C5: save() on a node that is not the root load returned fails with the
\* ValueError 'Original filename not available. Use save_to_file() instead.' and
\* writes no file.
C5_SaveWithoutOrigin ==
    (last.op = "save" /\ ~(origin = "load" /\ last.self = root)) =>
        /\ last.exc = Exc("ValueError", NoOriginMessage)
        /\ fs = last.prefs

\* C6: after load(p) and any add_item, add_items, update_item and remove_item
\* calls on the root, save() overwrites the file at p and no other with the
\* serialization of to_dict(), and load(p) then gives a root with the same
\* to_dict().
C6_SaveThenLoad ==
    (/\ Len(log) >= 2
     /\ log[1].op = "load" /\ log[1].exc = NoExc
     /\ OnlyRootCalls({"add_item", "add_items", "update_item", "remove_item"}, Len(log) - 1)
     /\ last.op = "save" /\ last.self = root) =>
        LET p == log[1].args[1]
            again == load(heap, fs, p)
        IN /\ last.exc = NoExc
           /\ fs = [last.prefs EXCEPT ![p] = dumps(to_dict(heap, root))]
           /\ again.exc = NoExc
           /\ to_dict(again.h, again.id) = to_dict(heap, root)

\* C7: get(key) on a key bound to a sub-table returns a snapshot of its pairs:
\* writing into the returned mapping does not change the node, and later calls on
\* the node do not change the returned mapping; a scalar or sequence is returned
\* as it is, and an absent key fails with KeyError (the last two stated here for
\* the keys that are no attribute of the class and not the origin path, on a node
\* whose get is callable).
C7_GetSnapshot ==
    /\ last.op = "set_held" => heap = last.pre
    /\ held.t = "dictref" => heap[held.id] = heldSeen
    /\ (/\ last.op = "get"
        /\ str(last.args[1]) \notin ClassAttrs \cup {"__file__"}
        /\ callable(last.pre, last.self, "get")) =>
          LET name == str(last.args[1])
          IN IF name \in DataKeys(last.pre, last.self)
             THEN LET bound == last.pre[last.self][name]
                  IN /\ last.exc = NoExc
                     /\ bound.t # "node" => last.ret = bound
                     /\ bound.t = "node" =>
                           last.ret.t = "dictref" /\ heap[last.ret.id] = last.pre[bound.id]
             ELSE last.exc = Exc("KeyError", name)

\* C8: whatever add_item, add_items and update_item calls bind, every
\* mapping-valued binding of the tree is a TomlConfig node, never a raw mapping.
C8_TablesAreNodes ==
    (root # 0 /\ \A i \in 2..Len(log) : log[i].op \in {"add_item", "add_items", "update_item"}) =>
        \A n \in reach(heap, root) : \A k \in DOMAIN heap[n] : heap[n][k].t # "dict"

\* C9: the origin path is attached only to the root load returned; it is not in
\* the export, it cannot be read, overwritten or removed as a data key, and no
\* data key of a document is dropped from the export because of it.
C9_OriginPathIsNotData ==
    /\ \A n \in Objects : "__file__" \in DOMAIN heap[n] => (origin = "load" /\ n = root)
    /\ last.op = "load" /\ last.exc = NoExc =>
          /\ "__file__" \notin DOMAIN to_dict(heap, root)
          /\ "__file__" \notin DOMAIN to_json(heap, root).doc
    /\ (last.op \in {"get", "update_item", "remove_item"} /\ last.args[1] = <<"__file__">>
          /\ origin = "load" /\ last.self = root /\ Len(log) = 2) =>
             last.exc = Exc("KeyError", "__file__") /\ heap = last.pre
    /\ (last.op = "add_item" /\ last.args[1] = <<"__file__">>
          /\ origin = "load" /\ last.self = root /\ Len(log) = 2) =>
             save(heap, fs, root).fs = save(last.pre, fs, root).fs
    /\ last.op = "new" => DOMAIN last.args[1] \subseteq
                             DOMAIN to_dict(heap, root) \cup {k \in DOMAIN last.args[1] : last.args[1][k] = NoneV}

\* C10: add_items(items) does what calling add_item once per entry does, in list
\* order and in each mapping's own order: the same final tree when every call
\* succeeds, and when a call fails the same failure, with the earlier entries
\* applied and the later ones not.
C10_AddItemsIsSequentialAddItem ==
    last.op = "add_items" =>
        LET r == Sequentially(last.pre, last.self, Flatten(last.args[1]))
        IN heap = r.h /\ last.exc = r.exc

\* add_items failed part way: an earlier entry is applied, a later one is not
C10_Witness ==
    /\ last.op = "add_items"
    /\ last.exc.e = "AttributeError"
    /\ Len(last.args[1]) = 3
    /\ follow(last.pre, NodeV(last.self), <<"b">>) # IntV(1)
    /\ follow(heap, NodeV(last.self), <<"b">>) = IntV(1)

=============================================================================
